---- MODULE Spec2Model ----
(***************************************************************************)
(* Model of the multi-agent orchestration engine of chatbot_ai_assistant:  *)
(* the LangGraph workflow (agent/graph.py), its nodes (agent/nodes/*.py),  *)
(* the run entry points (services/conversation_service.py), the stream     *)
(* buffer (services/streaming_helper.py) and the per-user serialisation of *)
(* Telegram updates (api/telegram_router.py).                              *)
(*                                                                         *)
(* A text is a sequence of tokens; a token stands for a block of           *)
(* characters (CharLen gives its length).  Substring tests of the code     *)
(* ("429" in str(e), "Successfully created Notion page" in content) are    *)
(* token-membership tests.                                                 *)
(***************************************************************************)
EXTENDS Integers, Sequences, FiniteSets, TLC

VARIABLES
    pcAsk,        \* position of ask_question / ask_question_stream
    mode,         \* "invoke" (ask_question) or "stream" (ask_question_stream)
    single,       \* TRUE when one node function is called directly on a state
    messages,     \* state["messages"]
    next,         \* state["next"]
    node,         \* the node the graph executes next
    steps,        \* supersteps executed in this run
    status,       \* "idle", "running", "done", "aborted"
    exc,          \* the exception that aborted the run
    rows,         \* persisted conversation rows of the room
    written,      \* rows written by save_conversation_node in this run
    lastNode,     \* the node that ran last
    lastOut,      \* messages returned by the node that ran last
    supIn,        \* a direct call of supervisor_node: what the collaborators answered
    buffer,       \* StreamBuffer.buffer
    chunks,       \* chunks yielded by ask_question_stream so far
    result,       \* what ask_question handed to its caller
    attempts,     \* number of graph invocations made by the entry point
    summary,      \* the summary stored for the room (<<>>: none)
    sumCalls,     \* model invocations made by summarize_conversation_node
    sumIn,        \* a direct call of summarize_conversation_node: its pre-state
    USER_LOCKS,   \* telegram_router.USER_LOCKS: user id -> lock id (0: absent)
    lockHolder,   \* lock id -> update holding it (0: free)
    nLocks,       \* number of asyncio.Lock objects created
    uuser,        \* update -> id of its effective_user (0: none)
    upc,          \* update -> position in process_update
    ulock,        \* update -> lock object obtained from get_user_lock
    stream,       \* the events of a step-output stream handed to stream_with_buffer
    streamPos,    \* number of events stream_with_buffer has consumed
    streamPc,     \* position of stream_with_buffer: "idle", "loop", "done"
    router,       \* a direct call of supervisor_node: backends invoked, decision
    input_tokens_used,   \* state["input_tokens_used"]
    output_tokens_used,  \* state["output_tokens_used"]
    usage,        \* usage reported by the model invocations of the workers, summed
    rowTokens,    \* token counts written on the assistant row of this run
    modelUsage,   \* the usage_metadata the model attaches to a response
    vector_store, \* the documents of the "chatbot_docs" collection
    notion,       \* a direct call of notion_node: the intent, the requests sent
    tg,           \* the streaming block of _process_update_impl and the bot it drives
    upd,          \* an update handed to _process_update_impl and what was done for it
    sb,           \* a StreamBuffer object used on its own, the clock, the last call
    chat_room     \* one group chat room written by concurrent updates: rows, positions

sumVars  == <<summary, sumCalls, sumIn>>
streamVars == <<stream, streamPos, streamPc>>
tokVars  == <<input_tokens_used, output_tokens_used, usage, rowTokens>>
runVars  == <<pcAsk, mode, single, messages, next, node, steps, status, exc,
              rows, written, lastNode, lastOut, supIn, buffer, chunks, result,
              attempts, summary, sumCalls, sumIn, stream, streamPos, streamPc,
              router, input_tokens_used, output_tokens_used, usage, rowTokens,
              modelUsage, vector_store, notion, tg, upd, sb, chat_room>>
runExceptTg == <<pcAsk, mode, single, messages, next, node, steps, status, exc,
                 rows, written, lastNode, lastOut, supIn, buffer, chunks,
                 result, attempts, summary, sumCalls, sumIn, stream, streamPos,
                 streamPc, router, input_tokens_used, output_tokens_used,
                 usage, rowTokens, modelUsage, vector_store, notion>>
lockVars == <<USER_LOCKS, lockHolder, nLocks, uuser, upc, ulock>>
vars     == <<pcAsk, mode, single, messages, next, node, steps, status, exc,
              rows, written, lastNode, lastOut, supIn, buffer, chunks, result,
              attempts, summary, sumCalls, sumIn,
              USER_LOCKS, lockHolder, nLocks, uuser, upc, ulock,
              stream, streamPos, streamPc, router,
              input_tokens_used, output_tokens_used, usage, rowTokens,
              modelUsage, vector_store, notion, tg, upd, sb, chat_room>>

----------------------------------------------------------------------------
(* Bounds of the model *)

\* model replies vary while the run holds at most MaxFree messages
MaxFree == 2
\* longest message list handed directly to a node function
MaxMsgs == 4
\* number of concurrently arriving Telegram updates
NumUpdates == 3

\* chunks ask_question_stream yields to the Telegram connector
MaxChunks == 3
\* most persisted messages of a room handed directly to Summarize
MaxRows == 12
\* longest step-output stream handed to stream_with_buffer
MaxEvents == 3

----------------------------------------------------------------------------
(* Program constants *)

RecursionLimit == 20
LoopWindow == 10
CharThreshold == 50
\* time_threshold_sec = 0.5, in tenths of a second
TimeThreshold == 5
HistoryTupleLen == 3
SupervisorUnpackLen == 4

MEMBERS == {"Researcher", "GeneralAssistant", "NotionSearch"}
OPTIONS == {"FINISH"} \cup MEMBERS

----------------------------------------------------------------------------
(* Texts and messages *)

CreatedTok == "Successfully created Notion page"
UpdatedTok == "Successfully updated Notion page"

TA == <<"a">>
TB == <<"B">>
NoText == <<>>

\* number of characters a token stands for
CharLen(tok) == IF tok = "B" THEN 50 ELSE 1

RECURSIVE TextLen(_)
TextLen(t) == IF t = <<>> THEN 0 ELSE CharLen(Head(t)) + TextLen(Tail(t))

Range(s) == {s[i] : i \in 1..Len(s)}

\* content of a message: a string, or a list of typed parts
Str(t) == [kind |-> "str", text |-> t, parts |-> <<>>]
Parts(p) == [kind |-> "list", text |-> <<>>, parts |-> p]
TextPart(t) == [type |-> "text", text |-> t]
ImagePart == [type |-> "image_url", text |-> <<>>]

\* Python truthiness of a content value
Truthy(c) == IF c.kind = "str" THEN c.text # <<>> ELSE c.parts # <<>>

\* `tok in content`: substring of a string; of a list it is element membership
Contains(c, tok) == c.kind = "str" /\ tok \in Range(c.text)

HumanMessage(c) ==
    [type |-> "human", content |-> c, tool_calls |-> <<>>,
     tool_call_id |-> 0, status |-> "none"]
AIMessage(c, calls) ==
    [type |-> "ai", content |-> c, tool_calls |-> calls,
     tool_call_id |-> 0, status |-> "none"]
ToolMessage(c, id, st) ==
    [type |-> "tool", content |-> Str(c), tool_calls |-> <<>>,
     tool_call_id |-> id, status |-> st]

ToolCall(name, id) == [name |-> name, id |-> id]

\* exceptions: class and str(e)
Exc(cls, msg) == [cls |-> cls, str |-> msg]
NoExc == Exc("none", <<>>)
ServiceUnavailable == Exc("ServiceUnavailable", <<"503">>)
RetryError == Exc("RetryError", <<"deadline">>)
ResourceExhausted == Exc("ResourceExhausted", <<"429">>)
WrappedExhausted == Exc("ChatGoogleGenerativeAIError", <<"ResourceExhausted">>)
ValueError == Exc("ValueError", <<"unpack">>)
DbError == Exc("OperationalError", <<"db">>)
GraphRecursionError == Exc("GraphRecursionError", <<"Recursion limit">>)

ModelErrors == {ServiceUnavailable, RetryError, ResourceExhausted,
                WrappedExhausted, Exc("Exception", <<"other">>)}

LastN(s, n) == SubSeq(s, IF Len(s) > n THEN Len(s) - n + 1 ELSE 1, Len(s))

----------------------------------------------------------------------------
(* repository/conversation_repository.py *)

\* get_history: the newest `limit` rows of the room, oldest first; every row
\* is returned as a tuple of HistoryTupleLen fields (role, message, name)
get_history(rws, limit) == LastN(rws, limit)

\* `for role, content, name, _ in history_tuples` raises ValueError on the
\* first tuple whose length differs from the number of targets
UnpackFails(hist, targets) == hist # <<>> /\ HistoryTupleLen # targets

Row(role, text) == [role |-> role, message |-> text]

----------------------------------------------------------------------------
(* agent/nodes/router_node.py: supervisor_node *)

\* contents of the assistant messages among the last 10 messages
AIContents(msgs) ==
    LET sel == SelectSeq(LastN(msgs, LoopWindow), LAMBDA m : m.type = "ai")
    IN  [i \in 1..Len(sel) |-> sel[i].content]

\* faulty variant: the comparison reaches one message too far back
IdenticalLoop_shifted(ai) ==
    LET n == Len(ai) IN n >= 4 /\ ai[n] = ai[n-1] /\ ai[n-1] = ai[n-3]

\* ai_messages[-1] == ai_messages[-2] == ai_messages[-3]
IdenticalLoop(ai) ==
    LET n == Len(ai) IN n >= 3 /\ ai[n] = ai[n-1] /\ ai[n-1] = ai[n-2]

\* repeated Notion page operation
NotionLoop(ai, next_step) ==
    LET n == Len(ai)
    IN  /\ n >= 3
        /\ (Contains(ai[n], CreatedTok) \/ Contains(ai[n], UpdatedTok))
        /\ next_step = "NotionSearch"

\* ai_messages[-1] == ai_messages[-3] and ai_messages[-2] == ai_messages[-4]
AlternatingLoop(ai) ==
    LET n == Len(ai) IN n >= 4 /\ ai[n] = ai[n-2] /\ ai[n-1] = ai[n-3]

NoRouter == [calls |-> <<>>, decision |-> "none"]

\* faulty variant: the cloud backend is asked even after a local decision
hybrid_router_both(useLocal, localOut, cloudOut) ==
    [calls |-> IF useLocal THEN <<"local", "cloud">> ELSE <<"cloud">>,
     decision |-> IF useLocal /\ localOut # "fail" THEN localOut ELSE cloudOut]

\* the hybrid router: the backends it invokes, in order, and the decision it
\* ends with.  The local backend is asked when USE_LOCAL_ROUTER is set; an
\* exception of that attempt (the 10 s timeout included) leaves
\* result_decision None, and only then the cloud backend is asked.  An
\* outcome is a member of OPTIONS or "fail"; decision "fail": the backend
\* asked last raised.
hybrid_router(useLocal, localOut, cloudOut) ==
    LET result_decision == IF useLocal /\ localOut # "fail" THEN localOut
                           ELSE "none"
    IN  [calls |-> (IF useLocal THEN <<"local">> ELSE <<>>)
                     \o (IF result_decision = "none" THEN <<"cloud">> ELSE <<>>),
         decision |-> IF result_decision # "none" THEN result_decision
                      ELSE cloudOut]

HybridDecision(useLocal, localOut, cloudOut) ==
    hybrid_router(useLocal, localOut, cloudOut).decision

\* ROBUST FAIL-SAFE: FINISH right after a user message becomes Researcher
FailSafeApplies(msgs, next_step) ==
    msgs # <<>> /\ next_step = "FINISH" /\ msgs[Len(msgs)].type = "human"

Routed(n) == [raised |-> NoExc, next |-> n]
Raised(e) == [raised |-> e, next |-> "none"]

supervisor_node(msgs, hist, dbFail, useLocal, localOut, cloudOut) ==
    IF dbFail THEN Raised(DbError)
    ELSE IF UnpackFails(hist, SupervisorUnpackLen) THEN Raised(ValueError)
    ELSE
      LET next_step == HybridDecision(useLocal, localOut, cloudOut)
          ai == AIContents(msgs)
      IN  IF next_step = "fail" THEN Routed("GeneralAssistant")
          ELSE IF FailSafeApplies(msgs, next_step) THEN Routed("Researcher")
          ELSE IF IdenticalLoop(ai) THEN Routed("FINISH")
          ELSE IF NotionLoop(ai, next_step) THEN Routed("FINISH")
          ELSE IF AlternatingLoop(ai) THEN Routed("FINISH")
          ELSE Routed(next_step)

----------------------------------------------------------------------------
(* agent/nodes/chat_node.py, search_node.py, notion_node.py: model replies *)

\* usage_metadata of a model response
Usage(i, o) == [input_tokens |-> i, output_tokens |-> o]
NoUsage == Usage(0, 0)

\* what the model of a deployment reports with a response: nothing, or the
\* tokens of the invocation
UsageChoices == {NoUsage, Usage(2, 1)}

\* "Track token usage" of general_assistant_node and researcher_node: the
\* counts of the state plus those of the response
track_input(tokens, u) == tokens + u.input_tokens
track_output(tokens, u) == tokens + u.output_tokens

\* value of a token column: None for a count of 0
None == -1
TokensOrNone(n) == IF n > 0 THEN n ELSE None

TokZero ==
    /\ input_tokens_used = 0
    /\ output_tokens_used = 0
    /\ usage = NoUsage
    /\ rowTokens = Usage(None, None)

TokIdle ==
    /\ modelUsage = NoUsage
    /\ TokZero

NoResultsTok == "No relevant information found in the knowledge base."
FallbackProbe == "No relevant documents found"
NotionErrorTok == "An error occurred while accessing Notion."

\* a direct call of a node function takes every reply the model may give
Free(msgs) == single \/ Len(msgs) <= MaxFree

\* the reply the model gives outside the free window: texts repeat in the
\* pattern x, x, y, y, which none of the loop checks matches
TailReply(msgs) == IF (Len(msgs) \div 2) % 2 = 0 THEN TA ELSE TB

\* general_assistant_node: the bare model, no tools bound
GeneralReplies(msgs) ==
    IF Free(msgs) THEN {AIMessage(Str(TA), <<>>), AIMessage(Str(TB), <<>>)}
    ELSE {AIMessage(Str(TailReply(msgs)), <<>>)}

\* researcher_node: tool_choice forces search_internal_knowledge right after
\* a user message; afterwards the model answers or calls tools as it likes
ResearcherReplies(msgs) ==
    IF msgs[Len(msgs)].type = "human"
    THEN {AIMessage(Str(NoText), <<ToolCall("search_internal_knowledge", 1)>>)}
    ELSE IF Free(msgs)
    THEN {AIMessage(Str(TA), <<>>),
          AIMessage(Str(NoText), <<>>),
          AIMessage(Str(NoText), <<ToolCall("tavily_search", 1)>>),
          AIMessage(Str(NoText), <<ToolCall("current_time", 1),
                                   ToolCall("search_google", 2),
                                   ToolCall("search_internal_knowledge", 3)>>)}
    ELSE {AIMessage(Str(TailReply(msgs)), <<>>)}

\* FALLBACK LOGIC of researcher_node: an empty reply right after a tool
\* result holding the probe text becomes a tavily_search call
researcher_fallback(msgs, response) ==
    LET last_msg == msgs[Len(msgs)]
        humans == SelectSeq(msgs, LAMBDA m : m.type = "human")
        user_query == IF humans = <<>> THEN Str(NoText)
                      ELSE humans[Len(humans)].content
    IN  IF /\ ~Truthy(response.content)
           /\ response.tool_calls = <<>>
           /\ last_msg.type = "tool"
           /\ Contains(last_msg.content, FallbackProbe)
           /\ Truthy(user_query)
        THEN AIMessage(Str(NoText), <<ToolCall("tavily_search", 1)>>)
        ELSE response

\* core/notion_client.py and the intent the model extracts in notion_node
NoId == ""
FailedCreateTok == "Failed to create Notion page. Please check logs."
FailedUpdateTok == "Failed to update Notion page. Please check logs."
NotUnderstoodTok == "I couldn't understand your request regarding Notion."

Args(page_id, title, content) ==
    [page_id |-> page_id, title |-> title, content |-> content]
NoArgs == Args(NoId, "", "")
NotionCall(name, args) == [name |-> name, args |-> args]
NoCall == NotionCall("none", NoArgs)
Request(op, page_id) == [op |-> op, page_id |-> page_id]

\* what surrounds one call of notion_node: whether the model invocation
\* raises, whether the client holds an API key, whether the store accepts
\* the requests it is sent, and the answer of the search chain
NotionEnv(raises, api_key, accepts, answer) ==
    [raises |-> raises, api_key |-> api_key, accepts |-> accepts,
     answer |-> answer]

\* NotionClient.update_page: PATCH pages/{page_id} when a title is given,
\* PATCH blocks/{page_id}/children when content is given; the first request
\* the store rejects ends the call with False
update_page(page_id, title, content, api_key, accepts) ==
    IF ~api_key THEN [success |-> FALSE, sent |-> <<>>]
    ELSE
      LET reqs == (IF title # "" THEN <<Request("PATCH pages", page_id)>>
                   ELSE <<>>) \o
                  (IF content # ""
                   THEN <<Request("PATCH blocks/children", page_id)>>
                   ELSE <<>>)
      IN  IF reqs = <<>> \/ (accepts /\ page_id # NoId)
          THEN [success |-> TRUE, sent |-> reqs]
          ELSE [success |-> FALSE, sent |-> <<reqs[1]>>]

\* NotionClient.create_page
create_page(api_key, accepts) ==
    IF ~api_key THEN [res |-> FALSE, sent |-> <<>>]
    ELSE [res |-> accepts, sent |-> <<Request("POST pages", NoId)>>]

NotionOut(text, sent) == [text |-> text, sent |-> sent]

\* notion_node: the first tool call of the model's answer names the
\* operation; no tool call means a search; any exception becomes the error
\* text.  The result is the reply text and the requests sent to the store.
notion_node(call, env) ==
    IF env.raises THEN NotionOut(<<NotionErrorTok>>, <<>>)
    ELSE IF call.name \in {"none", "search_notion"}
    THEN NotionOut(env.answer, <<Request("POST search", NoId)>>)
    ELSE IF call.name = "create_page"
    THEN LET r == create_page(env.api_key, env.accepts)
         IN  NotionOut(IF r.res THEN <<CreatedTok>> ELSE <<FailedCreateTok>>,
                       r.sent)
    ELSE IF call.name = "update_page"
    THEN LET r == update_page(call.args.page_id, call.args.title,
                              call.args.content, env.api_key, env.accepts)
         IN  NotionOut(IF r.success THEN <<UpdatedTok>>
                       ELSE <<FailedUpdateTok>>, r.sent)
    ELSE NotionOut(<<NotUnderstoodTok>>, <<>>)

\* the intents the model may extract
NotionCalls ==
    {NoCall, NotionCall("search_notion", NoArgs),
     NotionCall("create_page", Args(NoId, "t", "c")),
     NotionCall("delete_page", NoArgs)}
        \cup {NotionCall("update_page", Args(p, t, c)) :
                p \in {NoId, "p1"}, t \in {"", "t"}, c \in {"", "c"}}

NotionEnvs ==
    {NotionEnv(r, k, a, TA) : r \in BOOLEAN, k \in BOOLEAN, a \in BOOLEAN}

NoNotion == [call |-> NoCall, sent |-> <<>>]

\* the calls and surroundings a step of NotionSearch is taken with: all of
\* them for a direct call, otherwise a page creation, a search and a failure
NotionInputs(msgs) ==
    IF single
    THEN {<<c, e>> : c \in NotionCalls, e \in NotionEnvs}
    ELSE IF Free(msgs)
    THEN {<<NotionCall("create_page", Args(NoId, "t", "c")),
            NotionEnv(FALSE, TRUE, TRUE, TA)>>,
          <<NoCall, NotionEnv(FALSE, TRUE, TRUE, TA)>>,
          <<NoCall, NotionEnv(TRUE, TRUE, TRUE, TA)>>}
    ELSE {<<NoCall, NotionEnv(FALSE, TRUE, TRUE, TailReply(msgs))>>}

----------------------------------------------------------------------------
(* agent/nodes/tools_node.py: ToolNode over the four declared tools *)

DeclaredTools == {"tavily_search", "search_internal_knowledge",
                  "search_conversation_history", "current_time"}

InvalidToolTok == "Error: not a valid tool"

\* search_kwargs = {"k": 3}
RetrievalK == 3

\* core/vector_store.py and services/knowledge_service.py: one collection
\* for all rooms; every stored document carries the id of the room it was
\* uploaded to in its metadata
ChatRoomId == "room"
OtherRoomId == "other"
NoRoom == ""

Document(room, content) == [chat_room_id |-> room, page_content |-> content]
OwnDoc == Document(ChatRoomId, "doc")
OtherDoc == Document(OtherRoomId, "doc2")
Stores == SUBSET {OwnDoc, OtherDoc}

\* the documents of the store in ranking order
Ranked(store) ==
    (IF OwnDoc \in store THEN <<OwnDoc>> ELSE <<>>) \o
    (IF OtherDoc \in store THEN <<OtherDoc>> ELSE <<>>)

\* retriever.ainvoke: the k nearest documents that pass the filter
retriever(store, filter) ==
    LET pass == {d \in store : filter = NoRoom \/ d.chat_room_id = filter}
        r == Ranked(pass)
    IN  SubSeq(r, 1, IF Len(r) > RetrievalK THEN RetrievalK ELSE Len(r))

\* get_retrieval_tool(chat_room_id).coroutine: the filter is set only when a
\* room id is handed in; the documents found are formatted one after another
retrieve_documents(store, chat_room_id) ==
    LET filter == IF chat_room_id # NoRoom THEN chat_room_id ELSE NoRoom
        documents == retriever(store, filter)
    IN  IF documents = <<>> THEN <<NoResultsTok>>
        ELSE [i \in 1..Len(documents) |-> documents[i].page_content]

\* tools_node builds its retrieval tool with get_retrieval_tool(): no room id
ToolsNodeRoom == NoRoom

\* what the external interface behind a tool answers
ToolOutputs(name, store) ==
    IF name = "search_internal_knowledge"
    THEN {retrieve_documents(store, ToolsNodeRoom)}
    ELSE {<<"res">>}

\* faulty variant: the stage gives up at the first name no tool carries
tools_node_stop(msgs, outs) ==
    LET calls == msgs[Len(msgs)].tool_calls
        bad == {i \in 1..Len(calls) : calls[i].name \notin DeclaredTools}
        n == IF bad = {} THEN Len(calls)
             ELSE CHOOSE i \in bad : \A j \in bad : i <= j
    IN  [i \in 1..n |->
            IF calls[i].name \in DeclaredTools
            THEN ToolMessage(outs[i], calls[i].id, "success")
            ELSE ToolMessage(<<InvalidToolTok>>, calls[i].id, "error")]

\* one ToolMessage per call of the last message, in call order; a name that
\* no tool carries gives an error ToolMessage for that call
tools_node(msgs, outs) ==
    LET calls == msgs[Len(msgs)].tool_calls
    IN  [i \in 1..Len(calls) |->
            IF calls[i].name \in DeclaredTools
            THEN ToolMessage(outs[i], calls[i].id, "success")
            ELSE ToolMessage(<<InvalidToolTok>>, calls[i].id, "error")]

\* the possible answers of the interfaces to a list of calls
ToolOutcomes(calls, store) ==
    {o \in [1..Len(calls) ->
                {<<"res">>} \cup {retrieve_documents(s, NoRoom) : s \in Stores}] :
        \A i \in 1..Len(calls) : o[i] \in ToolOutputs(calls[i].name, store)}

----------------------------------------------------------------------------
(* agent/nodes/common_nodes.py: save_conversation_node *)

RECURSIVE JoinTexts(_, _)
JoinTexts(ts, sep) ==
    IF ts = <<>> THEN <<>>
    ELSE IF Len(ts) = 1 THEN ts[1]
    ELSE ts[1] \o sep \o JoinTexts(Tail(ts), sep)

TextsOf(c) ==
    LET sel == SelectSeq(c.parts, LAMBDA p : p.type = "text")
    IN  [i \in 1..Len(sel) |-> sel[i].text]

\* multimodal user content: text parts joined by a blank, then " [Image]"
UserContentStr(c) ==
    IF c.kind = "list"
    THEN JoinTexts(TextsOf(c), <<" ">>) \o
         (IF \E i \in 1..Len(c.parts) : c.parts[i].type = "image_url"
          THEN <<" [Image]">> ELSE <<>>)
    ELSE c.text

AIContentStr(c) ==
    IF c.kind = "list" THEN JoinTexts(TextsOf(c), <<" ">>) ELSE c.text

\* faulty variant: the pending tool calls of the last message are not looked at
save_conversation_node_any(msgs) ==
    IF msgs = <<>> THEN <<>>
    ELSE
      LET humans == SelectSeq(msgs, LAMBDA m : m.type = "human")
          ai_message == msgs[Len(msgs)]
      IN  IF humans # <<>> /\ ai_message.type = "ai"
          THEN <<Row("user", UserContentStr(humans[1].content)),
                 Row("assistant", AIContentStr(ai_message.content))>>
          ELSE <<>>

\* the rows save_conversation_node adds, in the order it adds them
save_conversation_node(msgs) ==
    IF msgs = <<>> THEN <<>>
    ELSE
      LET humans == SelectSeq(msgs, LAMBDA m : m.type = "human")
          ai_message == msgs[Len(msgs)]
      IN  IF /\ humans # <<>>
             /\ ai_message.type = "ai"
             /\ ai_message.tool_calls = <<>>
          THEN <<Row("user", UserContentStr(humans[1].content)),
                 Row("assistant", AIContentStr(ai_message.content))>>
          ELSE <<>>

----------------------------------------------------------------------------
(* agent/nodes/common_nodes.py: summarize_conversation_node *)

SummarizeThreshold == 10
KeepRecent == 4
SummarizeUnpackLen == 2

NewSummary == <<"s1">>

SummarizeResult(raised, calls, sm) ==
    [raised |-> raised, calls |-> calls, summary |-> sm]

\* summarize_conversation_node: the exception it raises (NoExc: none), the
\* model invocations it makes and the room summary it leaves.  llmOut is
\* what the model answers when invoked: NoExc for a summary text, else the
\* exception of the call; a rate-limit error of the call is swallowed
summarize_conversation_node(rws, current_summary, llmOut) ==
    LET history_tuples == get_history(rws, 100)
        to_summarize == SubSeq(history_tuples, 1, Len(history_tuples) - KeepRecent)
        call == [conversation |-> to_summarize, summary |-> current_summary]
    IN  IF Len(history_tuples) > SummarizeThreshold
        THEN IF to_summarize = <<>>
             THEN SummarizeResult(NoExc, <<>>, current_summary)
             ELSE IF UnpackFails(to_summarize, SummarizeUnpackLen)
             THEN SummarizeResult(ValueError, <<>>, current_summary)
             ELSE IF llmOut = NoExc
             THEN SummarizeResult(NoExc, <<call>>, NewSummary)
             ELSE IF "429" \in Range(llmOut.str) \/ "ResourceExhausted" \in Range(llmOut.str)
             THEN SummarizeResult(NoExc, <<call>>, current_summary)
             ELSE SummarizeResult(llmOut, <<call>>, current_summary)
        ELSE SummarizeResult(NoExc, <<>>, current_summary)

----------------------------------------------------------------------------
(* services/streaming_helper.py *)

\* extract_text_from_stream_event: the text of the last message of a node
\* output when that is an assistant message without tool calls; <<>> is None
extract_text_from_stream_event(out) ==
    IF out = <<>> THEN NoText
    ELSE LET last_msg == out[Len(out)]
         IN  IF /\ last_msg.type = "ai"
                /\ last_msg.tool_calls = <<>>
                /\ Truthy(last_msg.content)
             THEN IF last_msg.content.kind = "list"
                  THEN JoinTexts(TextsOf(last_msg.content), <<>>)
                  ELSE last_msg.content.text
             ELSE NoText

\* faulty variant: flush() hands the text out and keeps it in the buffer
StreamBuffer_add_keep(buf, text, timeElapsed) ==
    LET b == buf \o text
    IN  IF TextLen(b) >= CharThreshold \/ timeElapsed
        THEN [buffer |-> b, flushed |-> b]
        ELSE [buffer |-> b, flushed |-> <<>>]

\* StreamBuffer.add: [buffer, flushed]; flushed <<>> is None
StreamBuffer_add(buf, text, timeElapsed) ==
    LET b == buf \o text
    IN  IF TextLen(b) >= CharThreshold \/ timeElapsed
        THEN [buffer |-> <<>>, flushed |-> b]
        ELSE [buffer |-> b, flushed |-> <<>>]

\* a StreamBuffer with its flush timer; times are tenths of a second
NoneResult == [none |-> TRUE, text |-> <<>>]
TextResult(t) == [none |-> FALSE, text |-> t]

SbIdle ==
    [pc |-> "idle", buffer |-> <<>>, last_flush_time |-> 0, now |-> 0,
     calls |-> 0, op |-> "none", before |-> <<>>, timer_before |-> 0,
     text |-> <<>>, elapsed |-> FALSE, result |-> NoneResult]

\* StreamBuffer.add at time now: time_elapsed is measured from the last
\* flush; a flush restarts the timer
StreamBuffer_add_at(s, text, now) ==
    LET time_elapsed == now - s.last_flush_time
        should_flush == \/ TextLen(s.buffer \o text) >= CharThreshold
                        \/ time_elapsed >= TimeThreshold
        r == StreamBuffer_add(s.buffer, text, time_elapsed >= TimeThreshold)
    IN  [buffer |-> r.buffer,
         last_flush_time |-> IF should_flush THEN now ELSE s.last_flush_time,
         result |-> IF should_flush THEN TextResult(r.flushed)
                    ELSE NoneResult]

\* StreamBuffer.flush at time now
StreamBuffer_flush(s, now) ==
    [buffer |-> <<>>, last_flush_time |-> now, result |-> TextResult(s.buffer)]

\* one iteration of stream_with_buffer: [buffer, chunks]
stream_with_buffer(buf, chs, out, timeElapsed) ==
    LET text == extract_text_from_stream_event(out)
    IN  IF text # <<>>
        THEN LET r == StreamBuffer_add(buf, text, timeElapsed)
             IN  [buffer |-> r.buffer,
                  chunks |-> IF r.flushed # <<>> THEN Append(chs, r.flushed)
                             ELSE chs]
        ELSE [buffer |-> buf, chunks |-> chs]

\* the end of stream_with_buffer: what is left in the buffer is yielded
stream_with_buffer_end(buf, chs) ==
    [buffer |-> <<>>, chunks |-> IF buf # <<>> THEN Append(chs, buf) ELSE chs]

StreamIdle == stream = <<>> /\ streamPos = 0 /\ streamPc = "idle"

----------------------------------------------------------------------------
(* agent/graph.py: the workflow *)

NODES == {"retrieve_data", "Supervisor", "Researcher", "GeneralAssistant",
          "NotionSearch", "tools", "save_conversation",
          "summarize_conversation"}

\* conditional edge of the Supervisor: lambda x: x["next"] through the map
supervisor_edge(n) == IF n = "FINISH" THEN "save_conversation" ELSE n

\* faulty variant: the Researcher always hands back to the Supervisor
route_researcher_direct(msgs) == "Supervisor"

route_researcher(msgs) ==
    IF msgs[Len(msgs)].tool_calls # <<>> THEN "tools" ELSE "Supervisor"

NoSumIn == [llmOut |-> NoExc, summary |-> <<>>, rows |-> <<>>]

NoSupIn == [dbFail |-> FALSE, useLocal |-> FALSE, localOut |-> "none",
            cloudOut |-> "none"]

\* faulty variant: no step budget
CanRun_unbounded(n) ==
    /\ status = "running"
    /\ node = n
    /\ single => steps = 0

\* the graph may run node n: the run is alive and the step budget not used up
CanRun(n) ==
    /\ status = "running"
    /\ node = n
    /\ steps < RecursionLimit
    /\ single => steps = 0

TimeChoices == IF Free(messages) THEN BOOLEAN ELSE {TRUE}

\* node n returned `out` and the graph moves on to nxt; in streaming form the
\* update event of the node goes through stream_with_buffer before the next
\* node starts
Complete(n, out, nxt) ==
    /\ messages' = messages \o out
    /\ lastNode' = n
    /\ lastOut' = out
    /\ node' = nxt
    /\ steps' = steps + 1
    /\ status' = IF nxt = "END" THEN "done" ELSE "running"
    /\ IF mode = "stream"
       THEN \E te \in TimeChoices :
              LET r == stream_with_buffer(buffer, chunks, out, te)
              IN  buffer' = r.buffer /\ chunks' = r.chunks
       ELSE UNCHANGED <<buffer, chunks>>
    /\ UNCHANGED <<pcAsk, mode, single, exc, result, attempts>>
    /\ UNCHANGED lockVars

\* node n raised e: the run is over
FailWith(n, e) ==
    /\ status' = "aborted"
    /\ exc' = e
    /\ lastNode' = n
    /\ lastOut' = <<>>
    /\ steps' = steps + 1
    /\ UNCHANGED <<pcAsk, mode, single, messages, next, node, rows, written,
                   buffer, chunks, result, attempts>>
    /\ UNCHANGED lockVars

Fail(n, e) == FailWith(n, e) /\ UNCHANGED supIn

\* a model invocation of a worker answered and reported usage u
Reported(u) ==
    usage' = Usage(usage.input_tokens + u.input_tokens,
                   usage.output_tokens + u.output_tokens)

RetrieveData ==
    /\ UNCHANGED <<modelUsage, vector_store, tg, upd, sb, chat_room>>
    /\ UNCHANGED tokVars
    /\ UNCHANGED <<router, notion>>
    /\ UNCHANGED streamVars
    /\ UNCHANGED sumVars
    /\ CanRun("retrieve_data")
    /\ \/ /\ Complete("retrieve_data", <<>>, "Supervisor")
          /\ UNCHANGED <<next, rows, written, supIn>>
       \/ Fail("retrieve_data", DbError)

\* what the collaborators may answer in a Supervisor step: the history read
\* fails or not, USE_LOCAL_ROUTER is set or not, and each backend that is
\* asked picks an option or fails ("none": the backend is not asked)
Outcomes == OPTIONS \cup {"fail"}

SupervisorInputs ==
    {[dbFail |-> TRUE, useLocal |-> FALSE, localOut |-> "none",
      cloudOut |-> "none"]}
    \cup {[dbFail |-> FALSE, useLocal |-> FALSE, localOut |-> "none",
           cloudOut |-> c] : c \in Outcomes}
    \cup {[dbFail |-> FALSE, useLocal |-> TRUE, localOut |-> l,
           cloudOut |-> "none"] : l \in OPTIONS}
    \cup {[dbFail |-> FALSE, useLocal |-> TRUE, localOut |-> "fail",
           cloudOut |-> c] : c \in Outcomes}

Supervisor ==
    /\ UNCHANGED <<modelUsage, vector_store, tg, upd, sb, chat_room>>
    /\ UNCHANGED notion
    /\ UNCHANGED tokVars
    /\ UNCHANGED streamVars
    /\ UNCHANGED sumVars
    /\ CanRun("Supervisor")
    /\ \E in \in SupervisorInputs :
        LET r == supervisor_node(messages, get_history(rows, 10), in.dbFail,
                                 in.useLocal, in.localOut, in.cloudOut)
        IN  /\ supIn' = IF single THEN in ELSE NoSupIn
            /\ router' = IF single /\ r.raised = NoExc
                         THEN hybrid_router(in.useLocal, in.localOut, in.cloudOut)
                         ELSE NoRouter
            /\ IF r.raised # NoExc
               THEN FailWith("Supervisor", r.raised)
               ELSE /\ Complete("Supervisor", <<>>, supervisor_edge(r.next))
                    /\ next' = r.next
                    /\ UNCHANGED <<rows, written>>

GeneralAssistant ==
    /\ UNCHANGED <<modelUsage, vector_store, tg, upd, sb, chat_room>>
    /\ UNCHANGED <<router, notion>>
    /\ UNCHANGED streamVars
    /\ UNCHANGED sumVars
    /\ CanRun("GeneralAssistant")
    /\ UNCHANGED rowTokens
    /\ \/ \E response \in GeneralReplies(messages), u \in {modelUsage} :
            /\ Complete("GeneralAssistant", <<response>>, "Supervisor")
            /\ Reported(u)
            /\ input_tokens_used' = track_input(input_tokens_used, u)
            /\ output_tokens_used' = track_output(output_tokens_used, u)
            /\ UNCHANGED <<next, rows, written, supIn>>
       \/ /\ \E e \in ModelErrors : Fail("GeneralAssistant", e)
          /\ UNCHANGED <<input_tokens_used, output_tokens_used, usage>>

Researcher ==
    /\ UNCHANGED <<modelUsage, vector_store, tg, upd, sb, chat_room>>
    /\ UNCHANGED <<router, notion>>
    /\ UNCHANGED streamVars
    /\ UNCHANGED sumVars
    /\ CanRun("Researcher")
    /\ UNCHANGED rowTokens
    /\ \/ /\ ~UnpackFails(get_history(rows, 10), SupervisorUnpackLen)
          /\ \E response \in ResearcherReplies(messages),
                u \in {modelUsage} :
               /\ Complete("Researcher",
                           <<researcher_fallback(messages, response)>>,
                           route_researcher(messages \o
                               <<researcher_fallback(messages, response)>>))
               /\ Reported(u)
               /\ input_tokens_used' = track_input(input_tokens_used, u)
               /\ output_tokens_used' = track_output(output_tokens_used, u)
               /\ UNCHANGED <<next, rows, written, supIn>>
       \/ /\ UnpackFails(get_history(rows, 10), SupervisorUnpackLen)
          /\ Fail("Researcher", ValueError)
          /\ UNCHANGED <<input_tokens_used, output_tokens_used, usage>>
       \/ /\ ~UnpackFails(get_history(rows, 10), SupervisorUnpackLen)
          /\ \E e \in ModelErrors : Fail("Researcher", e)
          /\ UNCHANGED <<input_tokens_used, output_tokens_used, usage>>
       \/ /\ Fail("Researcher", DbError)
          /\ UNCHANGED <<input_tokens_used, output_tokens_used, usage>>

NotionSearch ==
    /\ UNCHANGED <<modelUsage, vector_store, tg, upd, sb, chat_room>>
    /\ UNCHANGED router
    /\ UNCHANGED streamVars
    /\ UNCHANGED sumVars
    /\ CanRun("NotionSearch")
    /\ UNCHANGED <<input_tokens_used, output_tokens_used, rowTokens>>
    /\ \E in \in NotionInputs(messages), u \in {modelUsage} :
         LET r == notion_node(in[1], in[2])
         IN  /\ Complete("NotionSearch", <<AIMessage(Str(r.text), <<>>)>>,
                         "Supervisor")
             /\ notion' = IF single THEN [call |-> in[1], sent |-> r.sent]
                          ELSE NoNotion
             /\ Reported(u)
         /\ UNCHANGED <<next, rows, written, supIn>>

Tools ==
    /\ UNCHANGED <<modelUsage, vector_store, tg, upd, sb, chat_room>>
    /\ UNCHANGED tokVars
    /\ UNCHANGED <<router, notion>>
    /\ UNCHANGED streamVars
    /\ UNCHANGED sumVars
    /\ CanRun("tools")
    /\ messages # <<>>
    /\ \E outs \in ToolOutcomes(messages[Len(messages)].tool_calls,
                               vector_store) :
         /\ Complete("tools", tools_node(messages, outs), "Researcher")
         /\ UNCHANGED <<next, rows, written, supIn>>

SaveConversation ==
    /\ UNCHANGED <<modelUsage, vector_store, tg, upd, sb, chat_room>>
    /\ UNCHANGED <<router, notion>>
    /\ UNCHANGED streamVars
    /\ UNCHANGED sumVars
    /\ CanRun("save_conversation")
    /\ Complete("save_conversation", <<>>, "summarize_conversation")
    /\ rows' = rows \o save_conversation_node(messages)
    /\ written' = written \o save_conversation_node(messages)
    /\ rowTokens' = IF save_conversation_node(messages) # <<>>
                    THEN Usage(TokensOrNone(input_tokens_used),
                               TokensOrNone(output_tokens_used))
                    ELSE rowTokens
    /\ UNCHANGED <<input_tokens_used, output_tokens_used, usage>>
    /\ UNCHANGED <<next, supIn>>

SummarizeConversation ==
    /\ UNCHANGED <<modelUsage, vector_store, tg, upd, sb, chat_room>>
    /\ UNCHANGED tokVars
    /\ UNCHANGED <<router, notion>>
    /\ UNCHANGED streamVars
    /\ CanRun("summarize_conversation")
    /\ \E llmOut \in ModelErrors \cup {NoExc}, dbFail \in BOOLEAN :
         \* get_history is awaited outside the try: a database failure of the
         \* read leaves the node as it is
         LET r == IF dbFail THEN SummarizeResult(DbError, <<>>, summary)
                  ELSE summarize_conversation_node(rows, summary, llmOut)
         IN  /\ sumIn' = IF single
                         THEN [llmOut |-> llmOut, summary |-> summary,
                               rows |-> rows]
                         ELSE NoSumIn
             /\ sumCalls' = sumCalls \o r.calls
             /\ summary' = r.summary
             /\ IF r.raised = NoExc
                THEN /\ Complete("summarize_conversation", <<>>, "END")
                     /\ UNCHANGED <<next, rows, written, supIn>>
                ELSE Fail("summarize_conversation", r.raised)

\* the step budget is used up and the run has not reached END
RecursionExceeded ==
    /\ UNCHANGED <<modelUsage, vector_store, tg, upd, sb, chat_room>>
    /\ UNCHANGED tokVars
    /\ UNCHANGED <<router, notion>>
    /\ UNCHANGED streamVars
    /\ status = "running"
    /\ ~single
    /\ node # "END"
    /\ steps = RecursionLimit
    /\ status' = "aborted"
    /\ exc' = GraphRecursionError
    /\ UNCHANGED <<pcAsk, mode, single, messages, next, node, steps, rows,
                   written, lastNode, lastOut, supIn, buffer, chunks, result,
                   attempts>>
    /\ UNCHANGED sumVars
    /\ UNCHANGED lockVars

----------------------------------------------------------------------------
(* services/conversation_service.py: ask_question, ask_question_stream *)

ApologyBusy == <<"AI server busy">>
ApologyRetry == <<"retries exceeded">>
ApologyRetryStream == <<"retries exceeded (stream)">>
ApologyQuota == <<"API quota exceeded">>
ApologyGeneric == <<"an error occurred">>

Returned(c) == [kind |-> "return", value |-> c]
NoResult == [kind |-> "none", value |-> Str(NoText)]

IsRateLimit(e) == "429" \in Range(e.str) \/ "ResourceExhausted" \in Range(e.str)

\* faulty variant: the rate-limit test comes first and the re-raise escapes
ask_question_except_raise(e) ==
    IF IsRateLimit(e) THEN Returned(Str(ApologyQuota))
    ELSE IF e.cls = "ServiceUnavailable" THEN Returned(Str(ApologyBusy))
    ELSE IF e.cls = "RetryError" THEN Returned(Str(ApologyRetry))
    ELSE [kind |-> "raise", value |-> Str(NoText)]

\* the except clauses around graph.ainvoke; what is re-raised is caught by the
\* outer handler and returned as the generic text
ask_question_except(e) ==
    IF e.cls = "ServiceUnavailable" THEN Returned(Str(ApologyBusy))
    ELSE IF e.cls = "RetryError" THEN Returned(Str(ApologyRetry))
    ELSE IF IsRateLimit(e) THEN Returned(Str(ApologyQuota))
    ELSE Returned(Str(ApologyGeneric))

\* the except clauses around the stream loop: the chunk that is yielded
ask_question_stream_except(e) ==
    IF e.cls = "ServiceUnavailable" THEN ApologyBusy
    ELSE IF e.cls = "RetryError" THEN ApologyRetryStream
    ELSE IF IsRateLimit(e) THEN ApologyQuota
    ELSE ApologyGeneric

Questions == {<<"q">>}

\* both entry points build the initial state and start the graph once
AskStart ==
    /\ UNCHANGED <<modelUsage, vector_store, tg, upd, sb, chat_room>>
    /\ UNCHANGED tokVars
    /\ UNCHANGED <<router, notion>>
    /\ UNCHANGED streamVars
    /\ pcAsk = "init"
    /\ \E question \in Questions :
         messages' = <<HumanMessage(Str(question))>>
    /\ node' = "retrieve_data"
    /\ status' = "running"
    /\ attempts' = attempts + 1
    /\ pcAsk' = "graph"
    /\ UNCHANGED <<mode, single, next, steps, exc, rows, written, lastNode,
                   lastOut, supIn, buffer, chunks, result>>
    /\ UNCHANGED sumVars
    /\ UNCHANGED lockVars

\* ask_question returns the content of the last message, or the text that
\* its handlers make of the exception
AskReturn ==
    /\ UNCHANGED <<modelUsage, vector_store, tg, upd, sb, chat_room>>
    /\ UNCHANGED tokVars
    /\ UNCHANGED <<router, notion>>
    /\ UNCHANGED streamVars
    /\ pcAsk = "graph"
    /\ mode = "invoke"
    /\ status \in {"done", "aborted"}
    /\ result' = IF status = "done"
                 THEN Returned(messages[Len(messages)].content)
                 ELSE ask_question_except(exc)
    /\ pcAsk' = "returned"
    /\ UNCHANGED <<mode, single, messages, next, node, steps, status, exc,
                   rows, written, lastNode, lastOut, supIn, buffer, chunks,
                   attempts>>
    /\ UNCHANGED sumVars
    /\ UNCHANGED lockVars

\* ask_question_stream: at the end of the stream the rest of the buffer is
\* yielded; after an exception the apology is yielded and the generator ends
StreamReturn ==
    /\ UNCHANGED <<modelUsage, vector_store, tg, upd, sb, chat_room>>
    /\ UNCHANGED tokVars
    /\ UNCHANGED <<router, notion>>
    /\ UNCHANGED streamVars
    /\ pcAsk = "graph"
    /\ mode = "stream"
    /\ status \in {"done", "aborted"}
    /\ IF status = "done"
       THEN /\ chunks' = stream_with_buffer_end(buffer, chunks).chunks
            /\ buffer' = stream_with_buffer_end(buffer, chunks).buffer
       ELSE /\ chunks' = Append(chunks, ask_question_stream_except(exc))
            /\ UNCHANGED buffer
    /\ result' = [kind |-> "exhausted", value |-> Str(NoText)]
    /\ pcAsk' = "returned"
    /\ UNCHANGED <<mode, single, messages, next, node, steps, status, exc,
                   rows, written, lastNode, lastOut, supIn, attempts>>
    /\ UNCHANGED sumVars
    /\ UNCHANGED lockVars

----------------------------------------------------------------------------
(* api/telegram_router.py: process_update and the per-user locks *)

Updates == 1..NumUpdates
Users == 1..2

\* faulty variant: a new lock on every call
get_user_lock_fresh(locks, n, user_id) ==
    [locks |-> [locks EXCEPT ![user_id] = n + 1], n |-> n + 1, lock |-> n + 1]

\* get_user_lock: the lock of the user, created on first use
get_user_lock(locks, n, user_id) ==
    IF locks[user_id] = 0
    THEN [locks |-> [locks EXCEPT ![user_id] = n + 1], n |-> n + 1,
          lock |-> n + 1]
    ELSE [locks |-> locks, n |-> n, lock |-> locks[user_id]]

\* process_update up to `async with lock`: an update without a user goes
\* straight into _process_update_impl
UpdateStart(u) ==
    /\ upc[u] = "start"
    /\ IF uuser[u] = 0
       THEN /\ upc' = [upc EXCEPT ![u] = "impl"]
            /\ UNCHANGED <<USER_LOCKS, nLocks, ulock>>
       ELSE LET r == get_user_lock(USER_LOCKS, nLocks, uuser[u])
            IN  /\ USER_LOCKS' = r.locks
                /\ nLocks' = r.n
                /\ ulock' = [ulock EXCEPT ![u] = r.lock]
                /\ upc' = [upc EXCEPT ![u] = "acquire"]
    /\ UNCHANGED <<lockHolder, uuser>>
    /\ UNCHANGED runVars

\* lock.__aenter__: proceeds when the lock is free
UpdateAcquire(u) ==
    /\ upc[u] = "acquire"
    /\ lockHolder[ulock[u]] = 0
    /\ lockHolder' = [lockHolder EXCEPT ![ulock[u]] = u]
    /\ upc' = [upc EXCEPT ![u] = "impl"]
    /\ UNCHANGED <<USER_LOCKS, nLocks, uuser, ulock>>
    /\ UNCHANGED runVars

\* faulty variant: the lock stays held when processing ends
UpdateEnd_keep(u) ==
    /\ upc[u] = "impl"
    /\ upc' = [upc EXCEPT ![u] = "done"]
    /\ UNCHANGED <<USER_LOCKS, lockHolder, nLocks, uuser, ulock>>
    /\ UNCHANGED runVars

\* _process_update_impl ends (it returns or raises); lock.__aexit__ releases
UpdateEnd(u) ==
    /\ upc[u] = "impl"
    /\ upc' = [upc EXCEPT ![u] = "done"]
    /\ lockHolder' = IF ulock[u] # 0 THEN [lockHolder EXCEPT ![ulock[u]] = 0]
                     ELSE lockHolder
    /\ UNCHANGED <<USER_LOCKS, nLocks, uuser, ulock>>
    /\ UNCHANGED runVars

\* the rows of one group chat room and, per update, how many of its two
\* add_message calls save_conversation_node has completed
RoomIdle == [rows |-> <<>>, saved |-> [u \in Updates |-> 0]]

RoomRow(u, role) == [update |-> u, role |-> role]

roomFrame ==
    <<pcAsk, mode, single, messages, next, node, steps, status, exc, rows,
      written, lastNode, lastOut, supIn, buffer, chunks, result, attempts,
      summary, sumCalls, sumIn, stream, streamPos, streamPc, router,
      input_tokens_used, output_tokens_used, usage, rowTokens, modelUsage,
      vector_store, notion, tg, upd, sb>>

\* save_conversation_node of the run of update u: the first add_message is
\* awaited, the user row is in the room
SaveUserRow(u) ==
    /\ upc[u] = "impl"
    /\ chat_room.saved[u] = 0
    /\ chat_room' = [rows |-> Append(chat_room.rows, RoomRow(u, "user")),
                     saved |-> [chat_room.saved EXCEPT ![u] = 1]]
    /\ UNCHANGED lockVars
    /\ UNCHANGED roomFrame

\* the second add_message is awaited, the assistant row is in the room
SaveAssistantRow(u) ==
    /\ upc[u] = "impl"
    /\ chat_room.saved[u] = 1
    /\ chat_room' = [rows |-> Append(chat_room.rows, RoomRow(u, "assistant")),
                     saved |-> [chat_room.saved EXCEPT ![u] = 2]]
    /\ UNCHANGED lockVars
    /\ UNCHANGED roomFrame

\* the run has persisted its pair and _process_update_impl ends
RoomEnd(u) ==
    /\ chat_room.saved[u] = 2
    /\ UpdateEnd(u)

----------------------------------------------------------------------------
(* Specifications *)

InitialRooms == {<<>>, <<Row("user", <<"q0">>), Row("assistant", TA)>>}

OldSummary == <<"s0">>

\* the text of the i-th persisted message of a room
RowTok(i) ==
    <<"m1", "m2", "m3", "m4", "m5", "m6", "m7", "m8", "m9", "m10", "m11",
      "m12", "m13", "m14", "m15", "m16">>[i]

\* a room with n persisted messages, user and assistant rows in turn
Room(n) ==
    [i \in 1..n |-> Row(IF i % 2 = 1 THEN "user" ELSE "assistant", <<RowTok(i)>>)]

SummarizeRooms == {Room(n) : n \in 0..MaxRows}

----------------------------------------------------------------------------
(* api/telegram_router.py: the streaming block of _process_update_impl.
   Texts are tuples of characters here, since the block slices them. *)

MESSAGE_LIMIT == 4000
MessageCap == 20

Dots == <<".", ".", ".">>
NoResponseText == <<"I didn't get a response.">>
ChunkHello == <<"H", "e", "l", "l", "o">>
ChunkWorld == <<" ", "W", "o", "r", "l", "d">>
ChunkBig == [i \in 1..MESSAGE_LIMIT |-> "x"]
ChunkPool == {ChunkHello, ChunkWorld, ChunkBig}
ChunkStreams == UNION {[1..n -> ChunkPool] : n \in 0..MaxChunks}

\* chunk.startswith(full_response)
StartsWith(s, p) == Len(s) >= Len(p) /\ SubSeq(s, 1, Len(p)) = p

\* s[a:b]
Slice(s, a, b) ==
    IF a >= Len(s) THEN <<>>
    ELSE SubSeq(s, a + 1, IF b < Len(s) THEN b ELSE Len(s))

TgIdle ==
    [pc |-> "idle", stream |-> <<>>, pos |-> 0, full_response |-> <<>>,
     sent_texts |-> <<>>, last_update_time |-> 0, shown |-> <<>>,
     edits |-> <<>>, notices |-> 0, skipped |-> FALSE, failed |-> FALSE]

\* bot.send_message(text="..."): k further messages, each recorded in
\* sent_messages and sent_texts
SendDots(s, k) ==
    [s EXCEPT !.sent_texts = @ \o [i \in 1..k |-> Dots],
              !.shown = @ \o [i \in 1..k |-> Dots]]

\* bot.edit_message_text on message id, followed by sent_texts[id] = text
\* when the call returns; a call that raises leaves the message as it was
EditMessage(s, id, text, ok) ==
    [s EXCEPT !.edits = Append(@, [message_id |-> id, text |-> text,
                                   was |-> s.shown[id], ok |-> ok]),
              !.shown = IF ok THEN [@ EXCEPT ![id] = text] ELSE @,
              !.sent_texts = IF ok THEN [@ EXCEPT ![id] = text] ELSE @,
              !.failed = @ \/ ~ok]

\* faulty variant: every update is sent
needs_edit_always(sent_texts, id, text) == TRUE

\* `if sent_texts.get(msg.message_id) != text`
needs_edit(sent_texts, id, text) == sent_texts[id] # text

\* one turn of `async for chunk in ask_question_stream(...)`.  elapsed: the
\* update interval has passed; fail: the call of the bot that raises, if it
\* is made ("finalize", "send", "edit", or "none")
process_chunk(s, chunk, elapsed, fail) ==
    LET full == IF StartsWith(chunk, s.full_response) THEN chunk
                ELSE s.full_response \o chunk
        s1 == [s EXCEPT !.full_response = full, !.pos = @ + 1,
                        !.skipped = @ \/ ~elapsed]
        n == Len(s.sent_texts)
        num_needed == (Len(full) \div MESSAGE_LIMIT) + 1
        prev_text == Slice(full, (n - 1) * MESSAGE_LIMIT, n * MESSAGE_LIMIT)
        s2 == IF num_needed > n /\ needs_edit(s1.sent_texts, n, prev_text)
              THEN EditMessage(s1, n, prev_text, fail # "finalize")
              ELSE s1
        sendRaises == num_needed > n /\ fail = "send"
        s3 == IF num_needed <= n THEN s2
              ELSE IF sendRaises THEN [s2 EXCEPT !.failed = TRUE]
              ELSE SendDots(s2, num_needed - n)
        last == Len(s3.sent_texts)
        new_text == Slice(full, (last - 1) * MESSAGE_LIMIT, Len(full)) \o Dots
        edit == ~sendRaises /\ needs_edit(s3.sent_texts, last, new_text)
        s4 == IF edit THEN EditMessage(s3, last, new_text, fail # "edit")
              ELSE s3
        raised == sendRaises \/ (edit /\ fail = "edit")
    IN  IF ~elapsed THEN s1
        ELSE [s4 EXCEPT !.last_update_time = IF raised THEN @ ELSE 1]

\* the loop of the final update: every message gets its part of the text
\* unless it shows it already; failAt: the message whose edit raises
RECURSIVE FinalEdits(_, _, _)
FinalEdits(s, i, failAt) ==
    IF i > Len(s.sent_texts) THEN s
    ELSE
      LET text_chunk == Slice(s.full_response, (i - 1) * MESSAGE_LIMIT,
                              i * MESSAGE_LIMIT)
          final_text == IF i = Len(s.sent_texts) /\ text_chunk = <<>>
                        THEN NoResponseText ELSE text_chunk
      IN  IF needs_edit(s.sent_texts, i, final_text)
          THEN IF failAt = i THEN EditMessage(s, i, final_text, FALSE)
               ELSE FinalEdits(EditMessage(s, i, final_text, TRUE), i + 1,
                               failAt)
          ELSE FinalEdits(s, i + 1, failAt)

\* after the loop: too many messages give a notice and nothing else;
\* otherwise missing messages are added and all are brought up to date.
\* failAt: 0 (nothing raises), -1 (send_message raises) or a message number
final_update(s, failAt) ==
    LET n == Len(s.sent_texts)
        num_needed == (Len(s.full_response) \div MESSAGE_LIMIT) + 1
    IN  IF n > MessageCap THEN [s EXCEPT !.notices = @ + 1]
        ELSE IF num_needed > n /\ failAt = -1 THEN [s EXCEPT !.failed = TRUE]
        ELSE FinalEdits(IF num_needed > n THEN SendDots(s, num_needed - n)
                        ELSE s, 1, failAt)

----------------------------------------------------------------------------
(* api/telegram_router.py: _process_update_impl up to the start of a run *)

\* an update: whether it carries a message, whether its user is a bot, what
\* the message holds, the type of its chat, how it names the bot, and
\* whether it replies to a message of the bot
Update(message, is_bot, content, chat_type, mention, reply_to_bot) ==
    [message |-> message, is_bot |-> is_bot, content |-> content,
     chat_type |-> chat_type, mention |-> mention,
     reply_to_bot |-> reply_to_bot]

Contents == {"none", "text", "command", "photo", "document"}
ChatTypes == {"private", "group", "supergroup"}
Mentions == {"none", "text", "text_other_case", "mention_entity",
             "text_mention_entity"}

TgUpdates ==
    {Update(msg, b, c, t, mn, r) :
        msg \in BOOLEAN, b \in BOOLEAN, c \in Contents, t \in ChatTypes,
        mn \in Mentions, r \in BOOLEAN}

UpdIdle ==
    [pc |-> "idle", update |-> Update(FALSE, FALSE, "none", "private", "none",
                                      FALSE),
     upserted |-> FALSE, run |-> FALSE]

\* _process_update_impl: an update without message, from a bot, or without
\* text, photo and document is dropped; for every other update the user and
\* the chat room are upserted; commands and documents are answered without
\* a run, text and photos start a run
process_update_impl(u) ==
    IF ~u.message \/ u.is_bot \/ u.content = "none"
    THEN [upserted |-> FALSE, run |-> FALSE]
    ELSE [upserted |-> TRUE, run |-> u.content \in {"text", "photo"}]

LockIdle ==
    /\ USER_LOCKS = [x \in Users |-> 0]
    /\ lockHolder = [l \in 1..(NumUpdates + 1) |-> 0]
    /\ nLocks = 0
    /\ uuser = [u \in Updates |-> 0]
    /\ upc = [u \in Updates |-> "done"]
    /\ ulock = [u \in Updates |-> 0]

RunIdle ==
    /\ mode = "invoke"
    /\ single = FALSE
    /\ messages = <<>>
    /\ next = ""
    /\ node = "START"
    /\ steps = 0
    /\ status = "idle"
    /\ exc = NoExc
    /\ rows = <<>>
    /\ written = <<>>
    /\ lastNode = "none"
    /\ lastOut = <<>>
    /\ supIn = NoSupIn
    /\ buffer = <<>>
    /\ chunks = <<>>
    /\ result = NoResult
    /\ attempts = 0
    /\ sumCalls = <<>>
    /\ sumIn = NoSumIn
    /\ StreamIdle
    /\ router = NoRouter
    /\ notion = NoNotion
    /\ TokIdle
    /\ vector_store = {}
    /\ summary = <<>>

\* a run started through ask_question or ask_question_stream
RunInit ==
    /\ pcAsk = "init"
    /\ mode \in {"invoke", "stream"}
    /\ single = FALSE
    /\ messages = <<>>
    /\ next = ""
    /\ node = "START"
    /\ steps = 0
    /\ status = "idle"
    /\ exc = NoExc
    /\ rows \in InitialRooms
    /\ written = <<>>
    /\ lastNode = "none"
    /\ lastOut = <<>>
    /\ supIn = NoSupIn
    /\ buffer = <<>>
    /\ chunks = <<>>
    /\ result = NoResult
    /\ attempts = 0
    /\ sumCalls = <<>>
    /\ sumIn = NoSumIn
    /\ StreamIdle
    /\ router = NoRouter
    /\ notion = NoNotion
    /\ TokZero
    /\ vector_store \in {{}, {OwnDoc, OtherDoc}}
    /\ tg = TgIdle
    /\ upd = UpdIdle
    /\ sb = SbIdle
    /\ chat_room = RoomIdle
    /\ summary = IF rows = <<>> THEN <<>> ELSE OldSummary
    /\ LockIdle

\* runs with a model that attaches no usage_metadata to its responses
Init == RunInit /\ modelUsage = NoUsage

\* runs with a model that reports usage, or none
TokenInit == RunInit /\ modelUsage \in UsageChoices

Next ==
    \/ AskStart
    \/ RetrieveData
    \/ Supervisor
    \/ GeneralAssistant
    \/ Researcher
    \/ NotionSearch
    \/ Tools
    \/ SaveConversation
    \/ SummarizeConversation
    \/ RecursionExceeded
    \/ AskReturn
    \/ StreamReturn

Spec == Init /\ [][Next]_vars

TokenSpec == TokenInit /\ [][Next]_vars

\* the steps of a run are taken as long as one is possible
FairSpec == Spec /\ WF_vars(Next)

\* concurrently arriving Telegram updates
LockInit ==
    /\ pcAsk = "idle"
    /\ RunIdle
    /\ tg = TgIdle
    /\ upd = UpdIdle
    /\ sb = SbIdle
    /\ chat_room = RoomIdle
    /\ USER_LOCKS = [x \in Users |-> 0]
    /\ lockHolder = [l \in 1..(NumUpdates + 1) |-> 0]
    /\ nLocks = 0
    /\ uuser \in [Updates -> {0} \cup Users]
    /\ upc = [u \in Updates |-> "start"]
    /\ ulock = [u \in Updates |-> 0]

LockNext ==
    \E u \in Updates : UpdateStart(u) \/ UpdateAcquire(u) \/ UpdateEnd(u)

LockSpec == LockInit /\ [][LockNext]_vars

\* updates of the users of one group chat room, each with a run that reaches
\* save_conversation_node
RoomNext ==
    \E u \in Updates :
        \/ UpdateStart(u)
        \/ UpdateAcquire(u)
        \/ SaveUserRow(u)
        \/ SaveAssistantRow(u)
        \/ RoomEnd(u)

RoomSpec == LockInit /\ [][RoomNext]_vars

\* the event loop runs every task that can take a step, and every single
\* processing terminates
LockFairSpec ==
    /\ LockSpec
    /\ \A u \in Updates : /\ WF_vars(UpdateStart(u))
                           /\ WF_vars(UpdateAcquire(u))
                           /\ WF_vars(UpdateEnd(u))

\* a node function called directly on a state, as the unit tests do
MsgPool ==
    {HumanMessage(Str(<<"q">>)),
     HumanMessage(Parts(<<TextPart(<<"q">>), ImagePart>>)),
     AIMessage(Str(TA), <<>>),
     AIMessage(Str(TB), <<>>),
     AIMessage(Str(NoText), <<ToolCall("current_time", 1),
                              ToolCall("search_google", 2),
                              ToolCall("search_internal_knowledge", 3)>>),
     ToolMessage(<<"res">>, 1, "success")}

\* nine earlier messages of a run, two of them assistant texts
LongPrefix ==
    [i \in 1..(LoopWindow - 1) |->
        IF i <= 2 THEN AIMessage(Str(TA), <<>>)
        ELSE ToolMessage(<<"res">>, 1, "success")]

\* a run in which the NotionSearch worker has just confirmed a page creation
NotionPrefix ==
    <<HumanMessage(Str(<<"q">>)), AIMessage(Str(<<CreatedTok>>), <<>>)>>

\* a run in which the Researcher's forced retrieval call has been answered
RetrievalPrefix(out) ==
    <<HumanMessage(Str(<<"q">>)),
      AIMessage(Str(NoText), <<ToolCall("search_internal_knowledge", 1)>>),
      ToolMessage(out, 1, "success")>>

ResearcherStates ==
    {<<HumanMessage(Str(<<"q">>))>>}
        \cup {RetrievalPrefix(out) :
                out \in UNION {ToolOutputs("search_internal_knowledge", s) :
                                 s \in Stores}}

DirectStates ==
    UNION {[1..n -> MsgPool] : n \in 0..MaxMsgs}

NodeInit ==
    /\ pcAsk = "direct"
    /\ mode = "invoke"
    /\ single = TRUE
    /\ node \in {"Supervisor", "save_conversation", "tools",
                 "summarize_conversation", "Researcher", "NotionSearch"}
    /\ \E s \in DirectStates,
          pre \in {<<>>, LongPrefix, NotionPrefix} \cup ResearcherStates :
         /\ messages = pre \o s
         /\ node = "Supervisor" => pre \in {<<>>, LongPrefix, NotionPrefix}
         /\ node = "Researcher" => pre \in ResearcherStates /\ s = <<>>
         /\ node = "NotionSearch" =>
              pre \in {<<HumanMessage(Str(<<"q">>))>>, NotionPrefix} /\ s = <<>>
         /\ node \notin {"Supervisor", "Researcher", "NotionSearch"} => pre = <<>>
         /\ node = "summarize_conversation" => s = <<>>
         /\ node = "tools" =>
              s # <<>> /\ s[Len(s)].type = "ai" /\ s[Len(s)].tool_calls # <<>>
    /\ next = ""
    /\ steps = 0
    /\ status = "running"
    /\ exc = NoExc
    /\ rows \in InitialRooms \cup SummarizeRooms
    /\ node = "Supervisor" => rows \in InitialRooms
    /\ node = "summarize_conversation" => rows \in SummarizeRooms
    /\ node \in {"save_conversation", "tools", "Researcher", "NotionSearch"} =>
          rows = <<>>
    /\ written = <<>>
    /\ lastNode = "none"
    /\ lastOut = <<>>
    /\ supIn = NoSupIn
    /\ buffer = <<>>
    /\ chunks = <<>>
    /\ result = NoResult
    /\ attempts = 0
    /\ sumCalls = <<>>
    /\ sumIn = NoSumIn
    /\ StreamIdle
    /\ router = NoRouter
    /\ notion = NoNotion
    /\ TokIdle
    /\ vector_store \in Stores
    /\ tg = TgIdle
    /\ upd = UpdIdle
    /\ sb = SbIdle
    /\ chat_room = RoomIdle
    /\ node # "tools" => vector_store = {}
    /\ summary \in {<<>>, OldSummary}
    /\ node # "summarize_conversation" => summary = <<>>
    /\ LockIdle

NodeNext ==
    \/ Supervisor \/ SaveConversation \/ Tools \/ SummarizeConversation
    \/ Researcher \/ NotionSearch

NodeSpec == NodeInit /\ [][NodeNext]_vars

----------------------------------------------------------------------------
(* stream_with_buffer applied to a step-output stream *)

\* node outputs as graph.astream(stream_mode="updates") delivers them: the
\* messages of one node's update (<<>>: an update without messages)
EventPool ==
    {<<>>,
     <<AIMessage(Str(TA), <<>>)>>,
     <<AIMessage(Str(TB), <<>>)>>,
     <<AIMessage(Parts(<<TextPart(<<"x">>), ImagePart, TextPart(<<"y">>)>>), <<>>)>>,
     <<AIMessage(Str(NoText), <<ToolCall("current_time", 1)>>)>>,
     <<AIMessage(Str(<<"c">>), <<ToolCall("tavily_search", 1)>>)>>,
     <<ToolMessage(<<"res">>, 1, "success")>>,
     <<AIMessage(Str(<<"e">>), <<>>), ToolMessage(<<"res">>, 1, "success")>>,
     <<ToolMessage(<<"res">>, 1, "success"), AIMessage(Str(<<"z">>), <<>>)>>}

Streams == UNION {[1..n -> EventPool] : n \in 0..MaxEvents}

StreamInit ==
    /\ pcAsk = "stream_with_buffer"
    /\ mode = "stream"
    /\ single = FALSE
    /\ messages = <<>>
    /\ next = ""
    /\ node = "START"
    /\ steps = 0
    /\ status = "idle"
    /\ exc = NoExc
    /\ rows = <<>>
    /\ written = <<>>
    /\ lastNode = "none"
    /\ lastOut = <<>>
    /\ supIn = NoSupIn
    /\ buffer = <<>>
    /\ chunks = <<>>
    /\ result = NoResult
    /\ attempts = 0
    /\ summary = <<>>
    /\ sumCalls = <<>>
    /\ sumIn = NoSumIn
    /\ LockIdle
    /\ router = NoRouter
    /\ notion = NoNotion
    /\ TokIdle
    /\ vector_store = {}
    /\ tg = TgIdle
    /\ upd = UpdIdle
    /\ sb = SbIdle
    /\ chat_room = RoomIdle
    /\ stream \in Streams
    /\ streamPos = 0
    /\ streamPc = "loop"

StreamFrame ==
    /\ UNCHANGED <<modelUsage, vector_store, tg, upd, sb, chat_room>>
    /\ UNCHANGED tokVars
    /\ UNCHANGED <<router, notion>>
    /\ UNCHANGED <<pcAsk, mode, single, messages, next, node, steps, status,
                   exc, rows, written, lastNode, lastOut, supIn, result,
                   attempts, stream>>
    /\ UNCHANGED sumVars
    /\ UNCHANGED lockVars

\* one turn of `async for event in stream`
StreamEvent ==
    /\ streamPc = "loop"
    /\ streamPos < Len(stream)
    /\ \E timeElapsed \in BOOLEAN :
         LET r == stream_with_buffer(buffer, chunks, stream[streamPos + 1],
                                     timeElapsed)
         IN  buffer' = r.buffer /\ chunks' = r.chunks
    /\ streamPos' = streamPos + 1
    /\ UNCHANGED streamPc
    /\ StreamFrame

\* the stream is exhausted: the remainder is flushed and the generator ends
StreamEnd ==
    /\ streamPc = "loop"
    /\ streamPos = Len(stream)
    /\ buffer' = stream_with_buffer_end(buffer, chunks).buffer
    /\ chunks' = stream_with_buffer_end(buffer, chunks).chunks
    /\ streamPc' = "done"
    /\ UNCHANGED streamPos
    /\ StreamFrame

StreamNext == StreamEvent \/ StreamEnd

StreamSpec == StreamInit /\ [][StreamNext]_vars

----------------------------------------------------------------------------
(* the streaming block run on a chunk stream *)

TgInit ==
    /\ pcAsk = "telegram"
    /\ RunIdle
    /\ LockIdle
    /\ upd = UpdIdle
    /\ sb = SbIdle
    /\ chat_room = RoomIdle
    /\ \E st \in ChunkStreams : tg = [TgIdle EXCEPT !.pc = "start", !.stream = st]

TgFrame ==
    /\ UNCHANGED runExceptTg
    /\ UNCHANGED <<upd, sb, chat_room>>
    /\ UNCHANGED lockVars

\* sent_msg = await bot.send_message(text="..."); a call that raises ends the
\* block with the apology notice
TgStart ==
    /\ tg.pc = "start"
    /\ \E ok \in BOOLEAN :
         tg' = IF ok THEN [SendDots(tg, 1) EXCEPT !.pc = "stream"]
               ELSE [tg EXCEPT !.pc = "done", !.failed = TRUE,
                               !.notices = @ + 1]
    /\ TgFrame

TgChunk ==
    /\ tg.pc = "stream"
    /\ tg.pos < Len(tg.stream)
    /\ \E elapsed \in (IF tg.last_update_time = 0 THEN {TRUE} ELSE BOOLEAN),
          fail \in {"none", "finalize", "send", "edit"} :
         tg' = process_chunk(tg, tg.stream[tg.pos + 1], elapsed, fail)
    /\ TgFrame

TgFinal ==
    /\ tg.pc = "stream"
    /\ tg.pos = Len(tg.stream)
    /\ \E failAt \in -1..(MaxChunks + 1) :
         tg' = [final_update(tg, failAt) EXCEPT !.pc = "done"]
    /\ TgFrame

TgNext == TgStart \/ TgChunk \/ TgFinal

TgSpec == TgInit /\ [][TgNext]_vars

----------------------------------------------------------------------------
(* _process_update_impl on one update *)

AdmitInit ==
    /\ pcAsk = "update"
    /\ RunIdle
    /\ LockIdle
    /\ tg = TgIdle
    /\ sb = SbIdle
    /\ chat_room = RoomIdle
    /\ \E u \in TgUpdates :
         upd = [UpdIdle EXCEPT !.pc = "received", !.update = u]

ProcessUpdate ==
    /\ upd.pc = "received"
    /\ LET r == process_update_impl(upd.update)
       IN  upd' = [upd EXCEPT !.pc = "done", !.upserted = r.upserted,
                              !.run = r.run]
    /\ UNCHANGED <<runExceptTg, tg, sb, chat_room>>
    /\ UNCHANGED lockVars

AdmitNext == ProcessUpdate

AdmitSpec == AdmitInit /\ [][AdmitNext]_vars

----------------------------------------------------------------------------
(* a StreamBuffer object called directly, as test_streaming.py does *)

BufferTexts == {<<>>, TA, <<"a", "a">>, TB}
Delays == {0, 2, TimeThreshold}

BufferInit ==
    /\ pcAsk = "buffer"
    /\ RunIdle
    /\ LockIdle
    /\ tg = TgIdle
    /\ upd = UpdIdle
    /\ sb = [SbIdle EXCEPT !.pc = "ready"]
    /\ chat_room = RoomIdle

BufferFrame ==
    /\ UNCHANGED <<runExceptTg, tg, upd, chat_room>>
    /\ UNCHANGED lockVars

BufferAdd ==
    /\ sb.pc = "ready"
    /\ sb.calls < MaxEvents + 1
    /\ \E text \in BufferTexts, d \in Delays :
         LET now == sb.now + d
             r == StreamBuffer_add_at(sb, text, now)
         IN  sb' = [sb EXCEPT !.buffer = r.buffer,
                              !.last_flush_time = r.last_flush_time,
                              !.result = r.result,
                              !.now = now, !.calls = @ + 1, !.op = "add",
                              !.before = sb.buffer,
                              !.timer_before = sb.last_flush_time,
                              !.text = text,
                              !.elapsed = now - sb.last_flush_time
                                              >= TimeThreshold]
    /\ BufferFrame

BufferFlush ==
    /\ sb.pc = "ready"
    /\ sb.calls < MaxEvents + 1
    /\ \E d \in Delays :
         LET now == sb.now + d
             r == StreamBuffer_flush(sb, now)
         IN  sb' = [sb EXCEPT !.buffer = r.buffer,
                              !.last_flush_time = r.last_flush_time,
                              !.result = r.result,
                              !.now = now, !.calls = @ + 1, !.op = "flush",
                              !.before = sb.buffer,
                              !.timer_before = sb.last_flush_time,
                              !.text = <<>>,
                              !.elapsed = FALSE]
    /\ BufferFrame

BufferNext == BufferAdd \/ BufferFlush

BufferSpec == BufferInit /\ [][BufferNext]_vars

----------------------------------------------------------------------------
(* Properties *)

LastMsg == messages[Len(messages)]

NodeActions ==
    \/ RetrieveData \/ Supervisor \/ GeneralAssistant \/ Researcher
    \/ NotionSearch \/ Tools \/ SaveConversation \/ SummarizeConversation

\* C1 as stated: every run stops, either at END or aborted with the
\* recursion-exceeded failure, and never executes more than 20 steps.
C1_EndOrRecursionOnly ==
    /\ steps <= RecursionLimit
    /\ status = "aborted" => exc = GraphRecursionError

C1_StepCounts ==
    (status = "running" /\ status' = "running") => steps' = steps + 1

C1_StopsForGood ==
    (status \in {"done", "aborted"})
        => (status' = status /\ steps' = steps /\ pcAsk' = "returned")

\* C1 as amended: every run stops, at END or aborted, the abort being the
\* recursion-exceeded failure or the exception a node raised.  Every step
\* of a running graph counts, no more than 20 steps execute, no node starts
\* once the budget is used up, and the recursion-exceeded failure is raised
\* exactly then; until the entry point has returned a next step exists.
C1_RunStops ==
    /\ [](steps <= RecursionLimit)
    /\ [](status = "aborted" /\ exc = GraphRecursionError
             => steps = RecursionLimit /\ node # "END")
    /\ [](status = "running" /\ steps = RecursionLimit
             => ~ENABLED NodeActions /\ ENABLED RecursionExceeded)
    /\ [](pcAsk # "returned" => ENABLED Next)
    /\ [][C1_StepCounts]_vars
    /\ [][C1_StopsForGood]_vars

\* C1 witness: the Supervisor never let the run finish, 20 steps ran and the
\* run was aborted with the recursion-exceeded failure.
C1_Witness ==
    /\ pcAsk = "returned"
    /\ status = "aborted"
    /\ exc = GraphRecursionError
    /\ steps = RecursionLimit

LastThreeAssistantEqual(msgs) ==
    LET W == {i \in 1..Len(msgs) : i > Len(msgs) - 10 /\ msgs[i].type = "ai"}
        Top(S) == CHOOSE i \in S : \A j \in S : j <= i
    IN  /\ Cardinality(W) >= 3
        /\ LET i1 == Top(W)
               i2 == Top(W \ {i1})
               i3 == Top(W \ {i1, i2})
           IN  msgs[i1].content = msgs[i2].content
               /\ msgs[i2].content = msgs[i3].content

\* the decision the routing backends delivered in a direct Supervisor call
\* ("fail": the backend asked last raised)
DecisionMade ==
    IF supIn.localOut \in OPTIONS THEN supIn.localOut ELSE supIn.cloudOut

\* C3 as stated: whenever the last 3 assistant messages among the last 10
\* messages are identical, the Supervisor step returns next = FINISH, also
\* when the decision model fails.
C3_AlwaysFinish ==
    (lastNode = "Supervisor" /\ LastThreeAssistantEqual(messages))
        => status = "running" /\ next = "FINISH"

\* C3 as amended: whenever the last 3 assistant messages among the last 10
\* messages are identical and the decision step delivers a decision, the
\* Supervisor returns FINISH whatever that decision is, except that a
\* FINISH decision right after a user message becomes Researcher; when the
\* backend asked last fails it returns GeneralAssistant, and it raises only
\* when reading or unpacking the room history fails.
C3_FinishOnIdentical ==
    (lastNode = "Supervisor" /\ LastThreeAssistantEqual(messages)) =>
        IF status = "running"
        THEN next = IF DecisionMade = "fail" THEN "GeneralAssistant"
                    ELSE IF DecisionMade = "FINISH" /\ LastMsg.type = "human"
                         THEN "Researcher"
                    ELSE "FINISH"
        ELSE exc \in {DbError, ValueError} /\ (supIn.dbFail \/ rows # <<>>)

\* C3 witness: three identical assistant messages, the model picked a
\* worker, and the Supervisor returned FINISH.
C3_Witness ==
    /\ lastNode = "Supervisor"
    /\ status = "running"
    /\ LastThreeAssistantEqual(messages)
    /\ DecisionMade \in MEMBERS
    /\ Len(messages) > LoopWindow
    /\ next = "FINISH"

\* C4: at most one update of an identity is inside _process_update_impl.
C4_OnePerIdentity ==
    \A u1, u2 \in Updates :
        (u1 # u2 /\ upc[u1] = "impl" /\ upc[u2] = "impl" /\ uuser[u1] # 0)
            => uuser[u1] # uuser[u2]

\* C4 witness: the first two updates of an identity both fetched the lock
\* before either took it; one is inside, the other waits.
C4_Witness ==
    \E u1, u2 \in Updates :
        /\ u1 # u2
        /\ uuser[u1] # 0
        /\ uuser[u1] = uuser[u2]
        /\ upc[u1] = "impl"
        /\ upc[u2] = "acquire"
        /\ ulock[u1] = ulock[u2]

\* the run holds a user message and ends with an assistant message that
\* carries no pending tool calls
CleanEnding(msgs) ==
    /\ msgs # <<>>
    /\ \E i \in 1..Len(msgs) : msgs[i].type = "human"
    /\ msgs[Len(msgs)].type = "ai"
    /\ msgs[Len(msgs)].tool_calls = <<>>

FirstUser(msgs) ==
    msgs[CHOOSE i \in 1..Len(msgs) :
            /\ msgs[i].type = "human"
            /\ \A j \in 1..(i - 1) : msgs[j].type # "human"]

C6_Edge ==
    \/ node = "START" /\ node' = "retrieve_data"
    \/ node = "retrieve_data" /\ node' = "Supervisor"
    \/ node = "Supervisor" /\ next' \in MEMBERS /\ node' = next'
    \/ node = "Supervisor" /\ next' = "FINISH" /\ node' = "save_conversation"
    \/ /\ node = "Researcher"
       /\ node' = IF messages'[Len(messages')].tool_calls # <<>>
                  THEN "tools" ELSE "Supervisor"
    \/ node = "tools" /\ node' = "Researcher"
    \/ node = "GeneralAssistant" /\ node' = "Supervisor"
    \/ node = "NotionSearch" /\ node' = "Supervisor"
    \/ node = "save_conversation" /\ node' = "summarize_conversation"
    \/ node = "summarize_conversation" /\ node' = "END"

C6_EdgesOnly ==
    [][/\ node' # node => C6_Edge
       /\ (steps' = steps + 1 /\ status' # "aborted")
             => (node' # node /\ lastNode' = node)]_vars

\* C6 witness: a run went through the Tool Stage back to the Researcher and
\* on through Persist and Summarize to END.
C6_Witness ==
    /\ node = "END"
    /\ status = "done"
    /\ \E i \in 1..Len(messages) : messages[i].type = "tool"
    /\ written # <<>>

\* C7: the Tool Stage appends exactly one tool-result message per pending
\* call, in call order; a call naming no declared tool gets an error result,
\* every other call a result, and the Researcher runs next.
C7_OneResultPerCall ==
    (lastNode = "tools" /\ status = "running") =>
        LET calls == messages[Len(messages) - Len(lastOut)].tool_calls
        IN  /\ Len(lastOut) = Len(calls)
            /\ SubSeq(messages, Len(messages) - Len(lastOut) + 1, Len(messages))
                 = lastOut
            /\ \A i \in 1..Len(calls) :
                 /\ lastOut[i].type = "tool"
                 /\ lastOut[i].tool_call_id = calls[i].id
                 /\ (lastOut[i].status = "error") <=>
                      (calls[i].name \notin DeclaredTools)
            /\ node = "Researcher"

\* C7 witness: a list whose second call names no declared tool; the calls
\* before and after it were executed.
C7_Witness ==
    /\ lastNode = "tools"
    /\ Len(lastOut) = 3
    /\ lastOut[1].status = "success"
    /\ lastOut[2].status = "error"
    /\ lastOut[3].status = "success"
    /\ node = "Researcher"

\* C8: a Supervisor step raises nothing, and when the history read or the
\* backend asked last fails it returns next = GeneralAssistant.
C8_FailureRoutesToGeneral ==
    lastNode = "Supervisor" =>
        /\ status = "running"
        /\ (supIn.dbFail \/ DecisionMade = "fail") => next = "GeneralAssistant"

\* C9: a run that exceeded the step budget is reported to the caller of the
\* entry point as a failure, not as returned text.
C9_RecursionSurfaced ==
    (pcAsk = "returned" /\ exc = GraphRecursionError)
        => result.kind = "raise"

ConfirmationIsLatest(msgs) ==
    \E i \in 1..Len(msgs) :
        /\ msgs[i].type = "ai"
        /\ \A j \in (i + 1)..Len(msgs) : msgs[j].type # "ai"
        /\ msgs[i].content.kind = "str"
        /\ \E k \in 1..Len(msgs[i].content.text) :
              msgs[i].content.text[k] \in {CreatedTok, UpdatedTok}

\* C11: when the most recent assistant message is a create or update
\* confirmation and the model decides for NotionSearch again, the Supervisor
\* returns FINISH, however many assistant messages the run holds.
C11_NoRepeatedNotionAction ==
    (/\ lastNode = "Supervisor"
     /\ status = "running"
     /\ ConfirmationIsLatest(messages)
     /\ DecisionMade = "NotionSearch")
        => next = "FINISH"

\* C12: for a room with n persisted messages, Summarize invokes no model
\* and leaves the summary alone when n <= 10; when n > 10 and the model
\* answers, it makes one invocation on the first n-4 messages in order and
\* the existing summary, stores the answer as the room summary, and leaves
\* the persisted messages unchanged.
C12_SummarizeAllButLastFour ==
    lastNode = "summarize_conversation" =>
        LET n == Len(sumIn.rows)
        IN  /\ rows = sumIn.rows
            /\ n <= SummarizeThreshold =>
                  sumCalls = <<>> /\ summary = sumIn.summary
            /\ (n > SummarizeThreshold /\ sumIn.llmOut = NoExc) =>
                  /\ Len(sumCalls) = 1
                  /\ sumCalls[1].conversation =
                        [i \in 1..(n - KeepRecent) |-> sumIn.rows[i]]
                  /\ sumCalls[1].summary = sumIn.summary
                  /\ summary = NewSummary
                  /\ status # "aborted"

RECURSIVE Flatten(_)
Flatten(ts) == IF ts = <<>> THEN <<>> ELSE Head(ts) \o Flatten(Tail(ts))

\* the text an event shows: that of its last message when this is an
\* assistant message without pending tool calls
DisplayText(ev) ==
    IF ev = <<>> THEN <<>>
    ELSE LET last == ev[Len(ev)]
         IN  IF last.type = "ai" /\ last.tool_calls = <<>>
             THEN IF last.content.kind = "str" THEN last.content.text
                  ELSE Flatten([i \in 1..Len(last.content.parts) |->
                                  IF last.content.parts[i].type = "text"
                                  THEN last.content.parts[i].text ELSE <<>>])
             ELSE <<>>

Displayed(n) == Flatten([i \in 1..n |-> DisplayText(stream[i])])

\* C14: what stream_with_buffer has yielded, followed by what it still
\* buffers, is the displayable text of the events consumed so far, in
\* order; no chunk is empty; when the stream has ended normally the chunks
\* are the displayable text of all events and the buffer is empty.
C14_ChunksAreDisplayText ==
    /\ streamPc \in {"loop", "done"} =>
          /\ Flatten(chunks) \o buffer = Displayed(streamPos)
          /\ \A i \in 1..Len(chunks) : chunks[i] # <<>>
    /\ streamPc = "done" =>
          /\ streamPos = Len(stream)
          /\ Flatten(chunks) = Displayed(Len(stream))
          /\ buffer = <<>>

\* C14 witness: a stream of a tool result followed by a reply, a
\* tool-call-bearing message that has text, and a reply in parts ended
\* with two chunks, the first flushed on time and the second at the end.
C14_Witness ==
    /\ streamPc = "done"
    /\ Len(stream) = 3
    /\ Len(stream[1]) = 2 /\ stream[1][1].type = "tool"
    /\ stream[2] # <<>>
    /\ stream[2][1].tool_calls # <<>> /\ stream[2][1].content.text # <<>>
    /\ stream[3] # <<>> /\ stream[3][1].content.kind = "list"
    /\ chunks = << <<"z">>, <<"x", "y">> >>

BackendCalls(b) == Cardinality({i \in 1..Len(router.calls) : router.calls[i] = b})

\* C15: in a Supervisor step with the local router enabled the local
\* backend is tried first; the cloud backend is invoked iff the local
\* attempt failed, then once and with its decision used; after a local
\* decision the cloud backend is not invoked and the local decision is used.
C15_LocalFirstThenCloud ==
    (lastNode = "Supervisor" /\ supIn.useLocal) =>
        /\ router.calls \in {<<>>, <<"local">>, <<"local", "cloud">>}
        /\ status = "running" =>
              /\ router.calls # <<>>
              /\ BackendCalls("cloud") = 1 <=> supIn.localOut = "fail"
              /\ supIn.localOut = "fail" =>
                    /\ router.decision = supIn.cloudOut
                    /\ supIn.cloudOut = "fail" => next = "GeneralAssistant"
              /\ supIn.localOut # "fail" =>
                    /\ BackendCalls("cloud") = 0
                    /\ router.decision = supIn.localOut
              /\ (messages = <<>> /\ router.decision # "fail") =>
                    next = router.decision

\* C15 witness: the local backend failed, the cloud backend was asked and
\* its choice of a worker was followed.
C15_Witness ==
    /\ lastNode = "Supervisor"
    /\ status = "running"
    /\ supIn.useLocal
    /\ supIn.localOut = "fail"
    /\ router.calls = <<"local", "cloud">>
    /\ supIn.cloudOut = "NotionSearch"
    /\ next = "NotionSearch"

\* the message before the last one is the retrieval tool's no-results reply
\* to the forced call
AfterNoResults ==
    /\ Len(messages) >= 4
    /\ messages[Len(messages) - 1].type = "tool"
    /\ messages[Len(messages) - 1].content.text = <<NoResultsTok>>
    /\ messages[Len(messages) - 2].tool_calls
         = <<ToolCall("search_internal_knowledge", 1)>>

\* C16: after the forced retrieval call came back with the no-results
\* reply, the Researcher never hands an empty reply to the Supervisor: its
\* message has text, or it carries tool calls (the web-search call it
\* synthesizes when the model returns nothing) and the Tool Stage is next.
C16_NoEmptyReplyAfterNoResults ==
    (lastNode = "Researcher" /\ status = "running" /\ AfterNoResults) =>
        /\ LastMsg.type = "ai"
        /\ LastMsg.content.text # <<>> \/ LastMsg.tool_calls # <<>>
        /\ LastMsg.tool_calls # <<>> => node = "tools"
        /\ LastMsg.tool_calls = <<>> => node = "Supervisor"

\* C17: when a run has reached Persist, input_tokens_used and
\* output_tokens_used are the sums of the usage reported by the model
\* invocations of GeneralAssistant, Researcher and NotionSearch, and these
\* sums are the counts on the persisted assistant row (None for 0).
C17_TokensAreSumOfUsage ==
    lastNode = "save_conversation" =>
        /\ input_tokens_used = usage.input_tokens
        /\ output_tokens_used = usage.output_tokens
        /\ written # <<>> =>
              /\ rowTokens.input_tokens =
                    IF usage.input_tokens = 0 THEN None ELSE usage.input_tokens
              /\ rowTokens.output_tokens =
                    IF usage.output_tokens = 0 THEN None ELSE usage.output_tokens

\* C18: every retrieval executed by the Tools stage is restricted to the
\* run's room: the result handed back for a search_internal_knowledge call
\* is the result the same call gets when the documents stored for other
\* rooms are taken out of the store.
RoomDocs(store, room) == {d \in store : d.chat_room_id = room}

C18_RetrievalInRoom ==
    lastNode = "tools" =>
        LET calls == messages[Len(messages) - Len(lastOut)].tool_calls
        IN  \A i \in 1..Len(lastOut) :
                calls[i].name = "search_internal_knowledge" =>
                    lastOut[i].content.text =
                        retrieve_documents(RoomDocs(vector_store, ChatRoomId),
                                           ToolsNodeRoom)

\* C19: NotionSearch sends no update request to the store without a target
\* page identifier: an update intent whose arguments carry no page_id is
\* answered with the failure text and nothing is sent for it.
UpdateRequests == {"PATCH pages", "PATCH blocks/children"}

C19_NoUpdateWithoutPageId ==
    lastNode = "NotionSearch" =>
        /\ \A i \in 1..Len(notion.sent) :
              notion.sent[i].op \in UpdateRequests =>
                  notion.sent[i].page_id # NoId
        /\ (notion.call.name = "update_page" /\ notion.call.args.page_id = NoId)
              => LastMsg.content.text \in
                     {<<FailedUpdateTok>>, <<NotionErrorTok>>}

\* C20: while a streamed reply is delivered, no edit is issued whose text
\* equals the text the message shows at that moment; for the chunks "Hello",
\* "Hello", " World", every update interval elapsed and no call of the bot
\* failing, the edits are exactly "Hello...", "Hello World...", "Hello World".
HelloStream == <<ChunkHello, ChunkHello, ChunkWorld>>

EditTexts == [i \in 1..Len(tg.edits) |-> tg.edits[i].text]

C20_NoRedundantEdit ==
    /\ \A i \in 1..Len(tg.edits) : tg.edits[i].text # tg.edits[i].was
    /\ (tg.pc = "done" /\ tg.stream = HelloStream /\ ~tg.skipped /\ ~tg.failed)
          => EditTexts = <<ChunkHello \o Dots,
                           ChunkHello \o ChunkWorld \o Dots,
                           ChunkHello \o ChunkWorld>>

C20_Witness ==
    /\ tg.pc = "done"
    /\ tg.stream = HelloStream
    /\ ~tg.skipped /\ ~tg.failed
    /\ Len(tg.edits) = 3
    /\ tg.shown = <<ChunkHello \o ChunkWorld>>

\* C21: after a streamed reply of length >= 1 that needs at most MessageCap
\* messages has completed (no call of the bot failing), message i shows the
\* i-th slice of MESSAGE_LIMIT characters of the reply, no message holds more
\* than MESSAGE_LIMIT characters or still shows the placeholder, and the
\* messages concatenated in order are the reply.
Delivered ==
    /\ tg.pc = "done"
    /\ ~tg.failed
    /\ Len(tg.full_response) >= 1
    /\ Len(tg.shown) <= MessageCap

C21_MessagesAreSlices ==
    Delivered =>
        /\ \A i \in 1..Len(tg.shown) :
              /\ tg.shown[i] = Slice(tg.full_response, (i - 1) * MESSAGE_LIMIT,
                                     i * MESSAGE_LIMIT)
              /\ Len(tg.shown[i]) <= MESSAGE_LIMIT
              /\ tg.shown[i] # Dots
        /\ Flatten(tg.shown) = tg.full_response

\* C22: the chunks ask_question_stream yields are deltas (each flush of the
\* stream buffer is new text); after every chunk the text the connector has
\* accumulated is the concatenation of the chunks received so far.
C22_DeltasConcatenate ==
    tg.pc \in {"stream", "done"} =>
        tg.full_response = Flatten(SubSeq(tg.stream, 1, tg.pos))

\* C23: a message in a private chat is always processed; a message in a
\* group chat is processed (user upserted, run started) only if it names the
\* bot, in the text or through an entity and in any letter case, or replies
\* to a message of the bot; every other group message causes no upsert and
\* no run.
Addressed(u) == u.mention # "none" \/ u.reply_to_bot

Processable(u) == u.message /\ ~u.is_bot /\ u.content = "text"

C23_GroupNeedsMention ==
    (upd.pc = "done" /\ Processable(upd.update)) =>
        IF upd.update.chat_type = "private" \/ Addressed(upd.update)
        THEN upd.upserted /\ upd.run
        ELSE ~upd.upserted /\ ~upd.run

\* C24: StreamBuffer.add returns None and keeps the text while the buffer
\* is shorter than the character threshold and the time threshold since the
\* last flush has not elapsed; otherwise it returns the whole buffered text,
\* empties the buffer and restarts the flush timer.  After every add the
\* buffer is empty or shorter than the character threshold.
C24_AddFlushesAtThreshold ==
    sb.op = "add" =>
        LET b == sb.before \o sb.text
        IN  /\ IF TextLen(b) < CharThreshold /\ ~sb.elapsed
               THEN /\ sb.result = NoneResult
                    /\ sb.buffer = b
                    /\ sb.last_flush_time = sb.timer_before
               ELSE /\ sb.result = TextResult(b)
                    /\ sb.buffer = <<>>
                    /\ sb.last_flush_time = sb.now
            /\ sb.buffer = <<>> \/ TextLen(sb.buffer) < CharThreshold

C24_Witness ==
    /\ sb.op = "add"
    /\ sb.before # <<>>
    /\ ~sb.elapsed
    /\ sb.result = TextResult(sb.before \o sb.text)
    /\ TextLen(sb.before) < CharThreshold
    /\ sb.buffer = <<>>

\* C25: in a run started from a single user message the Supervisor and
\* Persist are entered only when the last message carries no pending tool
\* calls: every tool call issued so far is followed by its tool results, in
\* call order, and when Persist is entered the last message is an assistant
\* message without tool calls.
Answered(msgs, i) ==
    LET calls == msgs[i].tool_calls
    IN  /\ i + Len(calls) <= Len(msgs)
        /\ \A k \in 1..Len(calls) :
              /\ msgs[i + k].type = "tool"
              /\ msgs[i + k].tool_call_id = calls[k].id

C25_NoPendingToolCalls ==
    (status = "running" /\ node \in {"Supervisor", "save_conversation"}) =>
        /\ messages # <<>>
        /\ LastMsg.tool_calls = <<>>
        /\ \A i \in 1..Len(messages) : Answered(messages, i)
        /\ node = "save_conversation" => LastMsg.type = "ai"

C25_Witness ==
    /\ status = "running"
    /\ node = "save_conversation"
    /\ \E i \in 1..Len(messages) :
          messages[i].tool_calls # <<>> /\ Answered(messages, i)

\* C26: whenever Persist has written the assistant row of a run,
\* ask_question returns that same assistant text: no run leaves a reply in
\* the room history while its caller receives an error text.
C26_StoredReplyIsReturned ==
    (pcAsk = "returned" /\ mode = "invoke" /\ written # <<>>) =>
        /\ result.kind = "return"
        /\ AIContentStr(result.value) = written[Len(written)].message

\* C27: for every run that reaches End, the chunks yielded by
\* ask_question_stream, concatenated, equal the assistant text that Persist
\* wrote for that run, also when more than one worker produced a text reply.
C27_StreamEqualsStored ==
    (pcAsk = "returned" /\ mode = "stream" /\ status = "done"
        /\ written # <<>>) =>
        Flatten(chunks) = written[Len(written)].message

\* C29: text added to the stream buffer is never lost: when the step stream
\* raises after a reply was accepted into the buffer and before it was
\* flushed, the buffered text is yielded ahead of the apology chunk, so
\* nothing is left in the buffer when ask_question_stream has ended.
C29_BufferedTextIsYielded ==
    (pcAsk = "returned" /\ mode = "stream") => buffer = <<>>

\* C30: provided every single processing terminates, every update handed to
\* process_update is eventually processed: the lock of its identity is
\* released when processing ends, and an update only ever waits for a lock
\* that is held by an update of its own identity.
C30_EveryUpdateProcessed ==
    /\ \A u \in Updates : <>(upc[u] = "done")
    /\ [](\A u \in Updates :
            (upc[u] = "acquire" /\ lockHolder[ulock[u]] # 0)
                => uuser[lockHolder[ulock[u]]] = uuser[u])

\* C30 witness: two updates of one identity went through the same lock, both
\* are processed and the lock is free again.
C30_Witness ==
    \E u1, u2 \in Updates :
        /\ u1 # u2
        /\ uuser[u1] # 0
        /\ uuser[u1] = uuser[u2]
        /\ ulock[u1] # 0
        /\ ulock[u1] = ulock[u2]
        /\ upc[u1] = "done"
        /\ upc[u2] = "done"
        /\ lockHolder[ulock[u1]] = 0

\* C28: in the persisted history of a room each run's user row is
\* immediately followed by that run's own assistant row, under every
\* interleaving of runs, also of runs started at the same time by different
\* users of the same group chat room (stated for updates that all carry a
\* user, so that every run goes through the lock of its user).
C28_PairsAreAdjacent ==
    \A i \in 1..Len(chat_room.rows) :
        (/\ chat_room.rows[i].role = "user"
         /\ i < Len(chat_room.rows)
         /\ \A u \in Updates : uuser[u] # 0) =>
            chat_room.rows[i + 1] =
                RoomRow(chat_room.rows[i].update, "assistant")

====
